---- MODULE Spec2Model ----
(***************************************************************************)
(* State-machine model of the council debate orchestrator                  *)
(* (CouncilOrchestrator in lib/agents/types.ts) as it is driven by the     *)
(* POST handler of app/api/council/route.ts.                               *)
(*                                                                         *)
(* One session is modelled from construction to the closing of the SSE     *)
(* writer.  The orchestrator suspends only at its external calls (search,  *)
(* advisor completion, moderator analysis, final synthesis); every action  *)
(* below is the code that runs from the return of one such call to the     *)
(* issue of the next one.                                                  *)
(***************************************************************************)
EXTENDS Integers, Sequences, FiniteSets, TLC

\* ------------------------------------------------------------------ bounds
\* Longest advisor list explored (the request schema admits up to 5).
MaxAdvisors == 3
\* Largest number of results the search collaborator returns in the model.
MaxResults == 1
\* Most advisor turns of one session that fail (empty response or rejection).
MaxFailures == 2
\* Events written to one SSE stream in the transport specification.
MaxEvents == 4
\* Debates started on the client service in the service specification.
MaxDebates == 3
\* Events one debate delivers to its handler in the service specification.
MaxDelivered == 2
\* Requests the first client sends to the rate-limited endpoints, requests
\* the second client sends, and advances of the clock.
MaxRequests == 12
MaxOther == 1
MaxTicks == 2
\* Requests received after the clock has first advanced.
MaxLate == 1
\* Fragments a question is made of in the research gate specification.
MaxFragments == 3
\* Calls of saveConversationToHistory, and how many of them save a stored id.
MaxSaves == 52
MaxUpdates == 2
\* Nested calls of saveConversationToHistory the call stack has room for.
MaxStack == 3

\* --------------------------------------------------------------- constants
ADVISOR_NAMES == <<"naval", "elon", "larry", "alex", "pavel">>
DebateModes == {"quick", "standard", "deep"}
\* checkRateLimit(identifier, 10 | 5 | 1, 60 * 1000) in the three routes.
CouncilLimit == 10
InterruptLimit == 5
ValidateLimit == 1
WindowMs == 60000
\* conversation-storage.ts
MAX_HISTORY_ITEMS == 50

VARIABLES
  \* constructor configuration (this.*)
  mode,               \* config.mode
  maxRounds,          \* this.maxRounds
  selectedAdvisors,   \* this.selectedAdvisors
  tavilyClient,       \* this.tavilyClient # null
  userEnabledResearch,\* this.userEnabledResearch
  enableResearch,     \* this.enableResearch
  questionHasKeyword, \* the question contains one of researchKeywords
  conversationHistory,\* the caller supplied a non-empty prior transcript
  question,           \* userQuestion, as a sequence of characters
  gateResult,         \* what shouldActivateResearch returned: "none" before
  requestAdvisors,    \* the advisors field of the request body
  \* control state of runCouncilDebate / runDebateRound
  pc,                 \* the await the session is suspended at
  round,              \* loop variable `round` of runCouncilDebate
  turn,               \* index of the advisor whose call is in flight
  successfulResponses,\* local counter of runDebateRound
  site,               \* which analyzeConsensus call is running: "loop" | "final"
  consensus,          \* local `consensus` (last ConsensusAnalysis obtained)
  \* DebateState
  currentRound,       \* state.currentRound as seen by runCouncilDebate
  newRound,           \* newState.currentRound inside runDebateRound
  agentResponses,     \* state.agentResponses (shared by state and newState)
  researchResults,    \* number of stored results, 0 = field absent
  consensusReached,   \* state.consensusReached
  finalAnswer,        \* state.finalAnswer: "undefined" | "text" | "empty"
  \* outputs
  prompt,             \* the prompt of the advisor call last issued
  finalPrompt,        \* closing instruction of the synthesis prompt last issued
  events,             \* events written to the SSE writer, in order
  closed,             \* writer.close() has run
  \* history
  analyses,           \* one record per analyzeConsensus invocation
  failures,           \* advisor turns of the session that failed so far
  calls,              \* external calls issued, each with the stream length then
  searchResult,       \* how the search call settled: -2 none yet, -1 failed, n
  cancelled,          \* the caller has aborted the request
  fatal,              \* why the session ended in the route's catch block
  \* SSE transport: route.ts writer -> network -> CouncilService.parseStream
  sseSent,            \* events written by the route's callback, in order
  sseWire,            \* bytes written and not yet read by the client
  sseDelivered,       \* events handed to onEvent by parseStream, in order
  \* client service: CouncilService and the useDebate hook
  abortController,    \* this.abortController: 0 = null, else the debate it aborts
  debates,            \* one record per startDebate call on the service
  isDebating,         \* store.isDebating
  \* rate limiter: checkRateLimit and the three routes that call it
  rlNow,              \* Date.now()
  rateLimitStore,     \* rateLimitStore, by identifier
  rlRequests,         \* requests received so far, by client
  rlTicks,            \* clock advances so far
  rlLate,             \* requests received after the first advance
  rlAdmitted,         \* requests let through, counted by ip, endpoint, window
  rlLast,             \* the last request and what the route did with it
  \* conversation history in localStorage
  storedHistory,      \* parsed value of the council_history key
  saves,              \* calls of saveConversationToHistory so far
  updates,            \* of which: calls for an id that was already stored
  \* client store: useDebateStore
  messages,           \* store.messages: type, agent, content, isStreaming
  handled,            \* events of the stream handed to handleStreamEvent
  \* one call of saveConversationToHistory, step by step
  savePc,             \* "idle" | "try" | "catch": where the innermost call is
  saveDepth,          \* calls of saveConversationToHistory on the stack
  saveRetries,        \* recursive calls made by the outermost call so far
  saveItem,           \* the conversation passed to the call
  quota               \* which setItem calls the browser refuses, see Quotas

cfgVars == <<mode, maxRounds, selectedAdvisors, tavilyClient,
             userEnabledResearch, enableResearch, questionHasKeyword,
             conversationHistory, question, gateResult, requestAdvisors>>
runVars == <<pc, round, turn, successfulResponses, site, consensus,
             currentRound, newRound, agentResponses, researchResults,
             consensusReached, finalAnswer, prompt, finalPrompt, events,
             closed, analyses, failures, calls, searchResult, cancelled,
             fatal>>
sseVars == <<sseSent, sseWire, sseDelivered>>
svcVars == <<abortController, debates, isDebating>>
rlVars == <<rlNow, rateLimitStore, rlRequests, rlTicks, rlLate, rlAdmitted,
           rlLast>>
histVars == <<storedHistory, saves, updates>>
storeVars == <<messages, handled>>
saveVars == <<savePc, saveDepth, saveRetries, saveItem, quota>>
utilVars == <<rlVars, histVars, storeVars, saveVars>>
vars == <<cfgVars, runVars, sseVars, svcVars, utilVars>>

\* ----------------------------------------------------------------- helpers
Last(s) == s[Len(s)]
Range(s) == {s[i] : i \in 1..Len(s)}
CountType(evs, t) == Cardinality({i \in 1..Len(evs) : evs[i].type = t})

\* A StreamEvent.  `agent` is the event's agent field; `subject` is the
\* advisor named inside the content text of a per-advisor error event.
Ev(t, a, c, subj) == [type |-> t, agent |-> a, content |-> c, subject |-> subj]
Status(c) == Ev("status", "none", c, "none")

NoPrompt == [advisor |-> "none", roundLabel |-> 0, initial |-> FALSE,
             seed |-> {},
             context |-> <<>>, research |-> FALSE]
DefaultVerdict == [consensusReached |-> FALSE, agreementLevel |-> 0,
                   agreements |-> 0, disagreements |-> 0]
\* No moderator reply has been received for an analysis.
NoReply == [consensus |-> "none", level |-> -1,
            agreements |-> -1, disagreements |-> -1]

\* ------------------------------------------------------------- constructor
\* modeMap of the constructor.
modeMap(m) == CASE m = "quick" -> 1
                [] m = "standard" -> 2
                [] m = "deep" -> 3

\* Advisor lists explored: runs of ADVISOR_NAMES of length 2..MaxAdvisors.
AdvisorLists ==
  {SubSeq(ADVISOR_NAMES, 1, n) : n \in 2..MaxAdvisors}

\* The keyword list of shouldActivateResearch, character by character.
researchKeywords ==
  {
    <<"r", "e", "s", "e", "a", "r", "c", "h">>,
    <<"s", "e", "a", "r", "c", "h">>,
    <<"l", "o", "o", "k", " ", "o", "n", "l", "i", "n", "e">>,
    <<"l", "o", "o", "k", " ", "u", "p">>,
    <<"f", "i", "n", "d", " ", "o", "n", "l", "i", "n", "e">>,
    <<"c", "h", "e", "c", "k", " ", "o", "n", "l", "i", "n", "e">>,
    <<"g", "o", "o", "g", "l", "e">>,
    <<"w", "h", "a", "t", " ", "d", "o", "e", "s", " ", "t", "h", "e", " ", "d", "a", "t", "a", " ", "s", "a", "y">>,
    <<"l", "a", "t", "e", "s", "t", " ", "d", "a", "t", "a">>,
    <<"c", "u", "r", "r", "e", "n", "t", " ", "d", "a", "t", "a">>,
    <<"r", "e", "c", "e", "n", "t", " ", "d", "a", "t", "a">>,
    <<"f", "i", "n", "d", " ", "o", "u", "t">>,
    <<"l", "o", "o", "k", " ", "i", "t", " ", "u", "p">>,
    <<"c", "h", "e", "c", "k", " ", "t", "h", "e">>,
    <<"v", "e", "r", "i", "f", "y">>,
    <<"f", "a", "c", "t", " ", "c", "h", "e", "c", "k">>,
    <<"s", "t", "a", "t", "i", "s", "t", "i", "c", "s">>,
    <<"s", "t", "a", "t", "s", " ", "o", "n">>,
    <<"n", "u", "m", "b", "e", "r", "s", " ", "o", "n">>,
    <<"d", "a", "t", "a", " ", "o", "n">>
  }

UpperCase ==
  <<
    "A", "B", "C", "D", "E", "F", "G", "H", "I", "J", "K", "L", "M",
    "N", "O", "P", "Q", "R", "S", "T", "U", "V", "W", "X", "Y", "Z"
  >>
LowerCase ==
  <<
    "a", "b", "c", "d", "e", "f", "g", "h", "i", "j", "k", "l", "m",
    "n", "o", "p", "q", "r", "s", "t", "u", "v", "w", "x", "y", "z"
  >>

\* String.prototype.toLowerCase on the characters used here.
ToLowerCase(text) ==
  [i \in 1..Len(text) |->
     IF \E n \in 1..Len(UpperCase) : UpperCase[n] = text[i]
     THEN LowerCase[CHOOSE n \in 1..Len(UpperCase) : UpperCase[n] = text[i]]
     ELSE text[i]]

\* String.prototype.includes
Includes(text, part) ==
  \E i \in 0..(Len(text) - Len(part)) :
     \A k \in 1..Len(part) : text[i + k] = part[k]

\* Variant of the keyword scan that compares the question as typed.
HasKeyword_asTyped(text) ==
  \E keyword \in researchKeywords : Includes(text, keyword)

\* researchKeywords.some(keyword => lowerQuestion.includes(keyword))
HasKeyword(text) ==
  \E keyword \in researchKeywords : Includes(ToLowerCase(text), keyword)

\* Pieces of text from which the questions explored are put together.
Fragments ==
  { <<"v", "e", "r", "i">>, <<"f", "y">>, <<"F", "Y">>, <<"V", "E", "R", "I">>,
    <<"s", "t", "a", "t">>, <<"s", " ", "o", "n">>, <<"S", " ", "O", "N">>,
    <<" ">>, <<"x">> }

RECURSIVE Texts(_)
\* The texts made of at most n fragments.
Texts(n) ==
  IF n = 0 THEN {<<>>}
  ELSE Texts(n - 1) \cup {t \o f : t \in Texts(n - 1), f \in Fragments}

\* The two questions the session specifications are run with: one without
\* a keyword, one with the keyword "verify" at the start of a sentence.
SampleQuestions == {<<"x">>, <<"V", "e", "r", "i", "f", "y">>}

\* shouldActivateResearch
shouldActivateResearch ==
  IF ~tavilyClient THEN FALSE
  ELSE IF userEnabledResearch THEN TRUE
  ELSE questionHasKeyword

\* -------------------------------------------------- the running session
\* The mutable part of the session as one record, so that the straight-line
\* code between two awaits can be composed from its pieces.
Cur == [pc |-> pc, round |-> round, turn |-> turn,
        successfulResponses |-> successfulResponses, site |-> site,
        consensus |-> consensus, currentRound |-> currentRound,
        newRound |-> newRound, agentResponses |-> agentResponses,
        researchResults |-> researchResults,
        consensusReached |-> consensusReached, finalAnswer |-> finalAnswer,
        prompt |-> prompt, finalPrompt |-> finalPrompt, events |-> events,
        closed |-> closed, analyses |-> analyses, failures |-> failures,
        calls |-> calls, searchResult |-> searchResult,
        cancelled |-> cancelled, fatal |-> fatal]

\* The record is bound once, then copied into the variables.
Become(next) ==
  \E s \in {next} :
  /\ pc' = s.pc /\ round' = s.round /\ turn' = s.turn
  /\ successfulResponses' = s.successfulResponses /\ site' = s.site
  /\ consensus' = s.consensus /\ currentRound' = s.currentRound
  /\ newRound' = s.newRound /\ agentResponses' = s.agentResponses
  /\ researchResults' = s.researchResults
  /\ consensusReached' = s.consensusReached /\ finalAnswer' = s.finalAnswer
  /\ prompt' = s.prompt /\ finalPrompt' = s.finalPrompt /\ events' = s.events
  /\ closed' = s.closed /\ analyses' = s.analyses /\ fatal' = s.fatal
  /\ failures' = s.failures /\ calls' = s.calls
  /\ searchResult' = s.searchResult /\ cancelled' = s.cancelled
  /\ UNCHANGED <<cfgVars, sseVars, svcVars, utilVars>>

\* onEvent?.(event): the route's callback queues one write on the SSE writer.
\* Once the caller has gone the write is rejected and nothing is delivered;
\* the orchestrator does not look at the promise the callback returns.
Emit(s, e) ==
  CHOOSE r \in {IF t.cancelled THEN t ELSE [t EXCEPT !.events = Append(@, e)] :
                  t \in {s}} : TRUE

\* An external call is issued (search, advisor, analysis or synthesis).
Call(s, kind) ==
  [s EXCEPT !.calls = Append(@, [kind |-> kind, at |-> Len(s.events),
                                 result |-> "pending",
                                 afterCancel |-> s.cancelled])]
\* The call in flight (the last one issued) settles with the given result.
Settle(s, result) == [s EXCEPT !.calls[Len(s.calls)].result = result]
CountCalls(kind) == Cardinality({i \in 1..Len(calls) : calls[i].kind = kind})

\* Variant of the catch block that reports a status after the error event.
RouteCatch_status(s, why) ==
  [Emit(Emit(s, Ev("error", "none", "safe error message", "none")),
        Status("closing"))
     EXCEPT !.pc = "done", !.closed = TRUE, !.fatal = why]

\* route.ts: catch block of the background task, then finally writer.close().
RouteCatch(s, why) ==
  [Emit(s, Ev("error", "none", "safe error message", "none"))
     EXCEPT !.pc = "done", !.closed = TRUE, !.fatal = why]

\* Variant in which the task ends without closing the writer.
RouteFinally_open(s) == [s EXCEPT !.pc = "idle"]

\* route.ts: runCouncilDebate returned; finally writer.close().
RouteFinally(s) == [s EXCEPT !.pc = "done", !.closed = TRUE]

\* ------------------------------------------------------ getAdvisorResponse
\* Variant of buildAdvisorContext that quotes each advisor's first response.
buildAdvisorContext_first(responses, currentAdvisor) ==
  LET otherAdvisors == SelectSeq(selectedAdvisors, LAMBDA n : n # currentAdvisor)
      present == SelectSeq(otherAdvisors, LAMBDA n : Len(responses[n]) > 0)
  IN [i \in 1..Len(present) |->
        [advisor |-> present[i], text |-> responses[present[i]][1]]]

\* A response text is identified by the round that produced it, so the
\* latest response of an advisor is told apart from its earlier ones.
buildAdvisorContext(responses, currentAdvisor) ==
  LET otherAdvisors == SelectSeq(selectedAdvisors, LAMBDA n : n # currentAdvisor)
      present == SelectSeq(otherAdvisors, LAMBDA n : Len(responses[n]) > 0)
  IN [i \in 1..Len(present) |->
        [advisor |-> present[i],
         text |-> responses[present[i]][Len(responses[present[i]])]]]

\* The texts the session is seeded with: createInitialState(userQuestion)
\* stores the question as the only message, and getAdvisorResponse quotes the
\* first user message.  The conversationHistory argument of runCouncilDebate
\* is read nowhere.
SeedText(history) == {"question"}

\* The user message built by getAdvisorResponse from the state it is given.
AdvisorPrompt(advisorName, stRound, responses, results) ==
  [advisor |-> advisorName,
   seed |-> SeedText(conversationHistory),
   roundLabel |-> IF stRound = 0 THEN 1 ELSE stRound + 1,
   initial |-> (stRound = 0),
   context |-> IF stRound = 0 THEN <<>>
               ELSE buildAdvisorContext(responses, advisorName),
   research |-> (results > 0)]

\* ------------------------------------------------------------- generateFinalAnswer
\* Closing instruction of finalPrompt, chosen by consensus.consensusReached.
Framing(verdict) ==
  IF verdict.consensusReached THEN "unified" ELSE "majority"

\* generateFinalAnswer up to its completion call.
generateFinalAnswer(s) ==
  [Call(s, "synthesis")
     EXCEPT !.pc = "synthesize", !.finalPrompt = Framing(s.consensus)]

\* ----------------------------------------------------------- analyzeConsensus
\* Variant that counts every stored response, not one per advisor.
NonEmptyLatest_everyResponse(responses) ==
  Cardinality({<<i, k>> \in (1..Len(selectedAdvisors)) \X (1..3) :
                 k <= Len(responses[selectedAdvisors[i]])})

\* latestResponses.length: selected advisors with a non-empty latest response.
NonEmptyLatest(responses) ==
  Cardinality({i \in 1..Len(selectedAdvisors) :
                 Len(responses[selectedAdvisors[i]]) > 0})

\* Variant of the short circuit with the threshold one lower.
AnalyzerShortCircuit_two(n) == n < 2

\* if (latestResponses.length < 3) return the default verdict.
AnalyzerShortCircuit(n) == n < 3

RecordAnalysis(s, where, isCalled) ==
  [s EXCEPT !.analyses = Append(@,
     [round |-> s.currentRound, nonEmpty |-> NonEmptyLatest(s.agentResponses),
      site |-> where, called |-> isCalled,
      reached |-> IF isCalled THEN "pending" ELSE "false",
      level |-> 0, reply |-> NoReply])]

\* The moderator's reply (or the short circuit) becomes the analysis result.
SetVerdict(s, v) ==
  [s EXCEPT !.consensus = v,
            !.analyses[Len(s.analyses)].reached =
                IF v.consensusReached THEN "true" ELSE "false",
            !.analyses[Len(s.analyses)].level = v.agreementLevel]

\* runCouncilDebate, after the round loop: lines 745-753.
AfterLoop(s) ==
  LET s1 == Emit(s, Ev("moderator_analysis", "none", "maximum rounds reached", "none"))
  IN IF AnalyzerShortCircuit(NonEmptyLatest(s1.agentResponses))
     THEN generateFinalAnswer(
            SetVerdict([RecordAnalysis(s1, "final", FALSE) EXCEPT !.site = "final"],
                       DefaultVerdict))
     ELSE [Call(RecordAnalysis(s1, "final", TRUE), "analysis")
             EXCEPT !.pc = "analyze", !.site = "final"]

\* ------------------------------------------------------------ runDebateRound
\* Loop body of runDebateRound up to `await this.getAdvisorResponse(...)`:
\* the status and agent_start events, then the prompt built from newState.
StartTurn(s, k) ==
  LET a == selectedAdvisors[k]
      s1 == Emit(s, Status("is thinking"))
      s2 == Emit(s1, Ev("agent_start", a, "", "none"))
  IN [Call(s2, "advisor") EXCEPT !.pc = "advisor", !.turn = k,
                !.prompt = AdvisorPrompt(a, s.newRound, s.agentResponses,
                                         s.researchResults)]

\* Variant of the round that leaves out the first advisor of the list.
runDebateRound_skipFirst(s) ==
  StartTurn([s EXCEPT !.newRound = s.currentRound + 1,
                      !.successfulResponses = 0], 2)

\* Entry of runDebateRound: newState = {...state}; newState.currentRound += 1.
runDebateRound(s) ==
  StartTurn([s EXCEPT !.newRound = s.currentRound + 1,
                      !.successfulResponses = 0], 1)

\* Variant of the loop guard that is off by one.
LoopContinues_inclusive(r) == r <= maxRounds

\* for (let round = 0; round < this.maxRounds; round++)
LoopContinues(r) == r < maxRounds

\* Variant of the consensus guard that also checks after the first round.
ShouldCheckConsensus_always(r) == r >= 0

\* if (round >= 1): the consensus check inside the loop.
ShouldCheckConsensus(r) == r >= 1

\* Variant of the round-level policy that accepts a single response.
EnoughResponses_one(n) == ~(n < 1)

\* if (successfulResponses < 2) throw.
EnoughResponses(n) == ~(n < 2)

\* Head of the round loop: either the body up to runDebateRound, or the code
\* after the loop.
LoopHead(s) ==
  IF LoopContinues(s.round)
  THEN runDebateRound(
         Emit(Emit(s, Status("round of")),
              Ev("moderator_analysis", "none", "starting round", "none")))
  ELSE AfterLoop(s)

\* The loop's consensus branch once the verdict is known: lines 717-742.
AfterLoopAnalysis(s) ==
  IF s.consensus.consensusReached
  THEN generateFinalAnswer(
         Emit(Emit(s, Status("generating final consensus")),
              Ev("moderator_analysis", "none", "consensus reached", "none")))
  ELSE LoopHead([s EXCEPT !.round = @ + 1])

\* End of runDebateRound and the rest of the loop body: lines 598-716.
EndRound(s) ==
  IF ~EnoughResponses(s.successfulResponses)
  THEN RouteCatch(s, "insufficient")
  ELSE LET s1 == [s EXCEPT !.currentRound = s.newRound]
       IN IF ShouldCheckConsensus(s1.round)
          THEN LET s2 == Emit(Emit(s1, Status("checking for consensus")),
                              Ev("consensus_check", "none", "analyzing", "none"))
               IN IF AnalyzerShortCircuit(NonEmptyLatest(s2.agentResponses))
                  THEN AfterLoopAnalysis(
                         SetVerdict([RecordAnalysis(s2, "loop", FALSE)
                                       EXCEPT !.site = "loop"], DefaultVerdict))
                  ELSE [Call(RecordAnalysis(s2, "loop", TRUE), "analysis")
                          EXCEPT !.pc = "analyze", !.site = "loop"]
          ELSE LoopHead([s1 EXCEPT !.round = @ + 1])

\* Variant of the advisor loop that stops one advisor short.
NextTurn_short(s) ==
  IF s.turn < Len(selectedAdvisors) - 1 THEN StartTurn(s, s.turn + 1)
  ELSE EndRound(s)

\* After one advisor's try/catch: the next advisor, or the end of the round.
NextTurn(s) ==
  IF s.turn < Len(selectedAdvisors) THEN StartTurn(s, s.turn + 1)
  ELSE EndRound(s)

\* Variant of the try-branch that stores the response whatever its text.
AdvisorResolved_keepEmpty(s, text) ==
  LET a == selectedAdvisors[s.turn]
  IN Emit([s EXCEPT !.agentResponses[a] = Append(@, s.newRound),
                    !.successfulResponses = @ + 1],
          Ev("agent_complete", a, "", "none"))

\* try-branch after the call returned: chunks forwarded, lines 573-584.
AdvisorResolved(s, text) ==
  LET a == selectedAdvisors[s.turn]
      s1 == IF text = "text"
            THEN Emit(s, Ev("agent_response", a, "chunk", "none"))
            ELSE s
      s2 == IF text = "text"
            THEN [s1 EXCEPT !.agentResponses[a] = Append(@, s.newRound),
                            !.successfulResponses = @ + 1]
            ELSE s1
  IN Emit(s2, Ev("agent_complete", a, "", "none"))

\* Variant of the catch-branch that lets the rejection escape the round.
AdvisorRejected_rethrow(s) == RouteCatch(s, "advisor")

\* catch-branch of the loop body, lines 586-595: the error event, then the
\* loop goes on with the next advisor.
AdvisorRejected(s) ==
  NextTurn(Emit(s, Ev("error", "none", "failed to respond",
                      selectedAdvisors[s.turn])))

\* ------------------------------------------------------------ external world
\* What an advisor completion can do: stream a non-empty text, stream
\* nothing (empty response), or reject (timeout, provider error).
AdvisorOutcomes == {"text", "empty", "throw"}

\* What the search collaborator can do: fail, or return 0..MaxResults results.
SearchOutcomes == {-1} \cup (0..MaxResults)

\* A reply in which none of the labelled fields occurs.
MalformedReply == [consensus |-> "absent", level |-> -1,
                   agreements |-> -1, disagreements |-> -1]

\* Moderator replies, by the fields the parser extracts: the YES/NO flag,
\* the agreement number, and the number of bullet lines under AGREEMENTS and
\* DISAGREEMENTS.  A field is "absent" / -1 when its label does not occur
\* in the reply.
ModeratorReplies ==
  { [consensus |-> "YES", level |-> 85, agreements |-> 2, disagreements |-> 0],
    [consensus |-> "NO", level |-> 40, agreements |-> 1, disagreements |-> 2],
    MalformedReply }

\* Variant of the parser that takes any reply without a NO for an agreement.
ParseVerdict_lenient(reply) ==
  [consensusReached |-> reply.consensus # "NO",
   agreementLevel |-> IF reply.level = -1 THEN 0 ELSE reply.level,
   agreements |-> IF reply.agreements = -1 THEN 0 ELSE reply.agreements,
   disagreements |-> IF reply.disagreements = -1 THEN 0
                     ELSE reply.disagreements]

\* Parsing of the reply in analyzeConsensus, lines 447-468: every field is
\* matched on its own and falls back to its zero value; agreementLevel is
\* kept in percent.
ParseVerdict(reply) ==
  [consensusReached |-> IF reply.consensus = "absent" THEN FALSE
                        ELSE reply.consensus = "YES",
   agreementLevel |-> IF reply.level = -1 THEN 0 ELSE reply.level,
   agreements |-> IF reply.agreements = -1 THEN 0 ELSE reply.agreements,
   disagreements |-> IF reply.disagreements = -1 THEN 0
                     ELSE reply.disagreements]

SynthesisOutcomes == {"text", "empty", "throw"}

\* -------------------------------------------------------------------- Init
\* No stream has been opened.
TransportIdle == sseSent = <<>> /\ sseWire = <<>> /\ sseDelivered = <<>>

\* The service singleton as constructed, the store before any debate.
ServiceIdle == abortController = 0 /\ debates = <<>> /\ isDebating = FALSE

\* The server module as loaded: an empty rateLimitStore.
NoRequest == [allowed |-> TRUE, inWindow |-> TRUE, response |-> "none",
              exhausted |-> FALSE]
LimiterIdle ==
  /\ rlNow = 0 /\ rateLimitStore = [k \in {} |-> 0]
  /\ rlRequests = [ip \in {"ip1", "ip2"} |-> 0] /\ rlTicks = 0 /\ rlLate = 0
  /\ rlAdmitted = [w \in {} |-> 0] /\ rlLast = NoRequest

\* A browser in which no conversation has been saved.
StorageIdle == storedHistory = <<>> /\ saves = 0 /\ updates = 0

\* No call of saveConversationToHistory is running.
NoConversation == [id |-> 0, rev |-> 0]
SaveIdle ==
  /\ savePc = "idle" /\ saveDepth = 0 /\ saveRetries = 0
  /\ saveItem = NoConversation /\ quota = "never"

\* The store when a debate starts: startDebate has added the user's message.
StoreIdle ==
  /\ messages = <<[type |-> "user", agent |-> "none", content |-> 1,
                   isStreaming |-> FALSE]>>
  /\ handled = 0

\* runCouncilDebate has not been entered.
RunIdle ==
  /\ pc = "created"
  /\ round = 0 /\ turn = 0 /\ successfulResponses = 0
  /\ site = "none" /\ consensus = DefaultVerdict
  /\ currentRound = 0 /\ newRound = 0
  /\ agentResponses = [a \in {} |-> <<>>]
  /\ researchResults = 0
  /\ consensusReached = FALSE /\ finalAnswer = "undefined"
  /\ prompt = NoPrompt /\ finalPrompt = "none"
  /\ events = <<>> /\ closed = FALSE
  /\ analyses = <<>> /\ failures = 0 /\ fatal = "none"
  /\ calls = <<>> /\ searchResult = -2 /\ cancelled = FALSE

\* The orchestrator as constructed by the route for a validated request.
SessionCreated ==
  /\ TransportIdle /\ ServiceIdle /\ LimiterIdle /\ StorageIdle /\ StoreIdle
  /\ SaveIdle
  /\ mode \in DebateModes
  /\ maxRounds = modeMap(mode)
  /\ selectedAdvisors \in AdvisorLists
  /\ requestAdvisors = selectedAdvisors
  /\ tavilyClient \in BOOLEAN
  /\ userEnabledResearch \in BOOLEAN
  /\ enableResearch = userEnabledResearch
  /\ question \in SampleQuestions
  /\ questionHasKeyword = HasKeyword(question)
  /\ gateResult = "none"
  /\ RunIdle

\* A session for a new question: no prior transcript comes with the request.
Init == SessionCreated /\ conversationHistory = FALSE

\* ----------------------------------------------------------------- actions
\* Variant of the entry that sends no cost estimate.
EmitCostEstimate_none(s) == s

\* estimateDebateCost and the cost_estimate event, lines 617-637.
EmitCostEstimate(s) == Emit(s, Ev("cost_estimate", "none", "", "none"))

\* Variant of performResearch that searches without announcing it.
StartSearch_quiet(s) == [Call(s, "search") EXCEPT !.pc = "research"]

\* performResearch up to its await: research_start, then the search call.
StartSearch(s) ==
  [Call(Emit(s, Ev("research_start", "none", "", "none")), "search")
     EXCEPT !.pc = "research"]

\* runCouncilDebate from its entry to its first await.
RunCouncilDebate ==
  /\ pc = "created"
  /\ LET s0 == [Cur EXCEPT
                  !.agentResponses = [a \in Range(selectedAdvisors) |-> <<>>],
                  !.currentRound = 0]
         s1 == EmitCostEstimate(s0)
     IN IF shouldActivateResearch
        THEN LET s2 == Emit(s1, Status("performing web research"))
             IN IF enableResearch /\ tavilyClient
                THEN Become(StartSearch(s2))
                ELSE Become(LoopHead(s2))
        ELSE Become(LoopHead(s1))

\* Variant of the catch block of performResearch that lets the failure out.
SearchRejected_fatal(s) == RouteCatch(s, "research")

\* catch block of performResearch (lines 208-215): research_complete, an
\* empty result, and runCouncilDebate goes on to the round loop.
SearchRejected(s) ==
  LoopHead(Emit(s, Ev("research_complete", "none", "", "none")))

\* Variant that announces the sources whatever their number.
SearchResolved_announce(s, n) ==
  LoopHead(Emit(Emit([s EXCEPT !.researchResults = n],
                     Ev("research_complete", "none", "", "none")),
                Ev("research_results", "none", "sources", "none")))

\* The search resolved with n results: lines 196-207 and 671-683.
SearchResolved(s, n) ==
  LET s1 == Emit(s, Ev("research_complete", "none", "", "none"))
      s2 == IF n > 0
            THEN Emit([s1 EXCEPT !.researchResults = n],
                      Ev("research_results", "none", "sources", "none"))
            ELSE s1
  IN LoopHead(s2)

\* The search call of performResearch settles.
SearchReturns ==
  /\ pc = "research"
  /\ \E n \in SearchOutcomes :
       LET s0 == Settle([Cur EXCEPT !.searchResult = n],
                        IF n = -1 THEN "throw" ELSE "ok")
       IN IF n = -1 THEN Become(SearchRejected(s0))
          ELSE Become(SearchResolved(s0, n))

\* The advisor call in flight settles.
AdvisorReturns ==
  /\ pc = "advisor"
  /\ \E o \in AdvisorOutcomes :
       /\ o # "text" => failures < MaxFailures
       /\ LET s0 == Settle([Cur EXCEPT !.failures =
                                          IF o = "text" THEN @ ELSE @ + 1], o)
          IN IF o = "throw"
             THEN Become(AdvisorRejected(s0))
             ELSE Become(NextTurn(AdvisorResolved(s0, o)))

\* The moderator call of analyzeConsensus settles.
ModeratorReturns ==
  /\ pc = "analyze"
  /\ \/ Become(RouteCatch(
                 Settle([Cur EXCEPT !.analyses[Len(analyses)].reached = "threw"],
                        "throw"),
                 "analysis"))
     \/ \E reply \in ModeratorReplies :
          LET s1 == SetVerdict(
                      Settle([Cur EXCEPT !.analyses[Len(analyses)].reply = reply],
                             "ok"),
                      ParseVerdict(reply))
          IN IF site = "loop" THEN Become(AfterLoopAnalysis(s1))
             ELSE Become(generateFinalAnswer(s1))

\* Variant in which a failed synthesis is papered over with an empty answer.
SynthesisRejected_fallback(s) ==
  RouteFinally(Emit([s EXCEPT !.finalAnswer = "empty"],
                    Ev("final_answer", "none", "empty", "none")))

\* generateFinalAnswer rejects: nothing in runCouncilDebate catches it, so
\* it reaches the route's catch block.
SynthesisRejected(s) == RouteCatch(s, "synthesis")

\* Variant that announces the answer without storing it in the state.
SetFinalAnswer_unset(s, o) ==
  Emit([s EXCEPT !.consensusReached = IF s.site = "loop" THEN TRUE ELSE @],
       Ev("final_answer", "none", o, "none"))

\* state.consensusReached = true (in the loop only); state.finalAnswer =
\* finalAnswer; then the final_answer event: lines 731-738 and 753-760.
SetFinalAnswer(s, o) ==
  Emit([s EXCEPT !.consensusReached = IF s.site = "loop" THEN TRUE ELSE @,
                 !.finalAnswer = o],
       Ev("final_answer", "none", o, "none"))

\* The completion call of generateFinalAnswer settles.
SynthesisReturns ==
  /\ pc = "synthesize"
  /\ \E o \in SynthesisOutcomes :
       IF o = "throw"
       THEN Become(SynthesisRejected(Settle(Cur, o)))
       ELSE Become(RouteFinally(SetFinalAnswer(Settle(Cur, o), o)))

Next ==
  \/ RunCouncilDebate
  \/ SearchReturns
  \/ AdvisorReturns
  \/ ModeratorReturns
  \/ SynthesisReturns

Spec == Init /\ [][Next]_vars

\* The session under the hypothesis that the task is scheduled and that every
\* external call in flight eventually settles (returns or fails).
Fairness ==
  /\ WF_vars(RunCouncilDebate)
  /\ WF_vars(SearchReturns)
  /\ WF_vars(AdvisorReturns)
  /\ WF_vars(ModeratorReturns)
  /\ WF_vars(SynthesisReturns)

SpecLive == Init /\ [][Next]_vars /\ Fairness

\* ------------------------------------------------- the caller goes away
\* The client aborts its fetch while the session is running.  The route's
\* background task holds no abort signal and passes none to the orchestrator:
\* the only effect on the server is that writes to the SSE writer are rejected.
Cancel ==
  /\ pc \notin {"created", "done"}
  /\ ~cancelled
  /\ Become([Cur EXCEPT !.cancelled = TRUE])

NextCancel ==
  \/ RunCouncilDebate
  \/ SearchReturns
  \/ AdvisorReturns
  \/ ModeratorReturns
  \/ SynthesisReturns
  \/ Cancel

\* Standard sessions of three advisors with a search key configured.
InitCancel ==
  /\ Init
  /\ mode = "standard" /\ Len(selectedAdvisors) = 3 /\ tavilyClient

SpecCancel == InitCancel /\ [][NextCancel]_vars

\* ----------------------------------------- continuation and regeneration
\* Quick sessions started with or without a prior transcript (the hook sends
\* the transcript of the conversation so far with every request).
InitContinue ==
  /\ SessionCreated
  /\ mode = "quick"
  /\ conversationHistory \in BOOLEAN

SpecContinue == InitContinue /\ [][Next]_vars

\* ----------------------------------------------------------- research gate
\* shouldActivateResearch(userQuestion) is applied to the question.
CheckGate ==
  /\ gateResult = "none"
  /\ gateResult' = IF shouldActivateResearch THEN "true" ELSE "false"
  /\ UNCHANGED <<mode, maxRounds, selectedAdvisors, tavilyClient,
                 userEnabledResearch, enableResearch, questionHasKeyword,
                 conversationHistory, question, requestAdvisors, runVars,
                 sseVars, svcVars, utilVars>>

NextGate ==
  \/ CheckGate

\* An orchestrator with or without a search client and with or without the
\* research flag, given a question of at most MaxFragments fragments.
InitGate ==
  /\ TransportIdle /\ ServiceIdle /\ LimiterIdle /\ StorageIdle /\ StoreIdle
  /\ SaveIdle /\ RunIdle
  /\ mode = "standard" /\ maxRounds = modeMap(mode)
  /\ selectedAdvisors = SubSeq(ADVISOR_NAMES, 1, 2)
  /\ requestAdvisors = selectedAdvisors
  /\ tavilyClient \in BOOLEAN
  /\ userEnabledResearch \in BOOLEAN
  /\ enableResearch = userEnabledResearch
  /\ conversationHistory = FALSE
  /\ question \in Texts(MaxFragments) \ {<<>>}
  /\ questionHasKeyword = HasKeyword(question)
  /\ gateResult = "none"

SpecGate == InitGate /\ [][NextGate]_vars

\* ------------------------------------------------------ request validation
\* AdvisorNameSchema: z.enum(['naval', 'elon', 'larry', 'alex', 'pavel'])
AdvisorNameSchema(name) == name \in Range(ADVISOR_NAMES)

\* The advisors field of CouncilDebateRequestSchema:
\* z.array(AdvisorNameSchema).min(2).max(5)
AdvisorsSchema(list) ==
  /\ \A i \in 1..Len(list) : AdvisorNameSchema(list[i])
  /\ Len(list) >= 2
  /\ Len(list) <= 5

\* Identifiers a request may carry: two advisors, and the moderator persona,
\* which is a key of PERSONAS but no advisor name.
RequestNames == {ADVISOR_NAMES[1], ADVISOR_NAMES[2], "moderator"}

\* The advisors lists explored: every list of 1..MaxAdvisors of these
\* identifiers, and one list of six advisor names.
RequestLists ==
  UNION {[1..k -> RequestNames] : k \in 1..MaxAdvisors}
    \cup {ADVISOR_NAMES \o <<ADVISOR_NAMES[1]>>}

\* POST /api/council from CouncilDebateRequestSchema.parse(body) to the
\* construction of the orchestrator with selectedAdvisors:
\* validatedData.advisors; a ZodError is answered with status 400.
PostCouncil ==
  /\ pc = "request"
  /\ IF AdvisorsSchema(requestAdvisors)
     THEN pc' = "created" /\ selectedAdvisors' = requestAdvisors
     ELSE pc' = "rejected" /\ selectedAdvisors' = selectedAdvisors
  /\ UNCHANGED <<mode, maxRounds, tavilyClient, userEnabledResearch,
                 enableResearch, questionHasKeyword, conversationHistory,
                 question, gateResult, requestAdvisors,
                 round, turn, successfulResponses, site, consensus,
                 currentRound, newRound, agentResponses, researchResults,
                 consensusReached, finalAnswer, prompt, finalPrompt, events,
                 closed, analyses, failures, calls, searchResult, cancelled,
                 fatal, sseVars, svcVars, utilVars>>

NextRequest ==
  \/ PostCouncil
  \/ RunCouncilDebate
  \/ SearchReturns
  \/ AdvisorReturns
  \/ ModeratorReturns
  \/ SynthesisReturns

\* A quick-mode request with a search key has arrived and passed the rate
\* limit; no orchestrator exists yet.
InitRequest ==
  /\ TransportIdle /\ ServiceIdle /\ LimiterIdle /\ StorageIdle /\ StoreIdle
  /\ SaveIdle
  /\ mode = "quick" /\ maxRounds = modeMap(mode)
  /\ requestAdvisors \in RequestLists
  /\ selectedAdvisors = <<>>
  /\ tavilyClient = TRUE
  /\ userEnabledResearch \in BOOLEAN
  /\ enableResearch = userEnabledResearch
  /\ conversationHistory = FALSE
  /\ question = <<"x">>
  /\ questionHasKeyword = HasKeyword(question)
  /\ gateResult = "none"
  /\ round = 0 /\ turn = 0 /\ successfulResponses = 0
  /\ site = "none" /\ consensus = DefaultVerdict
  /\ currentRound = 0 /\ newRound = 0
  /\ agentResponses = [a \in {} |-> <<>>]
  /\ researchResults = 0
  /\ consensusReached = FALSE /\ finalAnswer = "undefined"
  /\ prompt = NoPrompt /\ finalPrompt = "none"
  /\ events = <<>> /\ closed = FALSE
  /\ analyses = <<>> /\ failures = 0 /\ fatal = "none"
  /\ calls = <<>> /\ searchResult = -2 /\ cancelled = FALSE
  /\ pc = "request"

SpecRequest == InitRequest /\ [][NextRequest]_vars

\* ------------------------------------------------------------ SSE transport
Tok(k, e) == [k |-> k, e |-> e]

\* `data: ${JSON.stringify(event)}\n\n` as written by the route's callback:
\* the prefix, the JSON text of event e in two parts, and two line feeds.
Frame(e) ==
  <<Tok("prefix", 0), Tok("open", e), Tok("close", e), Tok("nl", 0), Tok("nl", 0)>>

\* chunk.split('\n')
RECURSIVE SplitLines(_)
SplitLines(chunk) ==
  IF \A i \in 1..Len(chunk) : chunk[i].k # "nl" THEN <<chunk>>
  ELSE LET i == CHOOSE j \in 1..Len(chunk) :
                  /\ chunk[j].k = "nl"
                  /\ \A m \in 1..(j - 1) : chunk[m].k # "nl"
       IN <<SubSeq(chunk, 1, i - 1)>> \o SplitLines(SubSeq(chunk, i + 1, Len(chunk)))

\* line.startsWith('data: ') and JSON.parse(line.slice(6)) succeeds: the rest
\* of the line is one complete JSON text.
LineParses(line) ==
  /\ Len(line) = 3
  /\ line[1].k = "prefix"
  /\ line[2].k = "open" /\ line[3].k = "close" /\ line[2].e = line[3].e

\* Body of the read loop of parseStream for one chunk: the events handed to
\* onEvent, in order; lines that do not parse are logged and dropped.
ParseChunk(chunk) ==
  LET good == SelectSeq(SplitLines(chunk), LineParses)
  IN [i \in 1..Len(good) |-> good[i][2].e]

\* The route's callback writes the frame of the next event.
SseWrite ==
  /\ Len(sseSent) < MaxEvents
  /\ sseSent' = Append(sseSent, Len(sseSent) + 1)
  /\ sseWire' = sseWire \o Frame(Len(sseSent) + 1)
  /\ UNCHANGED <<sseDelivered, cfgVars, runVars, svcVars, utilVars>>

\* reader.read() returns the next network chunk: any non-empty run of the
\* bytes in flight.
SseRead ==
  /\ \E n \in 1..Len(sseWire) :
       /\ sseDelivered' = sseDelivered \o ParseChunk(SubSeq(sseWire, 1, n))
       /\ sseWire' = SubSeq(sseWire, n + 1, Len(sseWire))
  /\ UNCHANGED <<sseSent, cfgVars, runVars, svcVars, utilVars>>

NextSSE ==
  \/ SseWrite
  \/ SseRead

\* One session, looked at only for its stream.
InitSSE ==
  /\ Init
  /\ mode = "standard" /\ Len(selectedAdvisors) = 2
  /\ ~tavilyClient /\ ~userEnabledResearch /\ ~questionHasKeyword

SpecSSE == InitSSE /\ [][NextSSE]_vars

\* ------------------------------------------------------------ rate limiter
ClientIPs == {"ip1", "ip2"}
Endpoints == {"council", "interrupt", "validate"}

\* maxRequests as passed by each route.
LimitOf(endpoint) ==
  CASE endpoint = "council" -> CouncilLimit
    [] endpoint = "interrupt" -> InterruptLimit
    [] endpoint = "validate" -> ValidateLimit

\* Variant of the comparison that looks at the count before the increment.
Allowed_before(count, maxRequests) == count - 1 <= maxRequests

\* const allowed = entry.count <= maxRequests
Allowed(count, maxRequests) == count <= maxRequests

\* The store after the occasional clean-up of expired entries.
CleanUp(store, now) ==
  LET live == {k \in DOMAIN store : ~(store[k].resetAt < now)}
  IN [k \in live |-> store[k]]

\* "Get or create rate limit entry", then entry.count++.
Counted(store, key, now) ==
  LET fresh == key \notin DOMAIN store \/ store[key].resetAt < now
      entry == IF fresh THEN [count |-> 0, resetAt |-> now + WindowMs]
               ELSE store[key]
  IN [k \in DOMAIN store \cup {key} |->
        IF k = key THEN [entry EXCEPT !.count = @ + 1] ELSE store[k]]

\* checkRateLimit: the new store and the value returned.
checkRateLimit(store, key, maxRequests, now, cleaning) ==
  LET store1 == Counted(IF cleaning THEN CleanUp(store, now) ELSE store, key, now)
  IN [store |-> store1,
      allowed |-> Allowed(store1[key].count, maxRequests),
      remaining |-> IF maxRequests - store1[key].count > 0
                    THEN maxRequests - store1[key].count ELSE 0,
      resetAt |-> store1[key].resetAt]

\* Math.random() < 0.01 decides whether expired entries are cleaned up; the
\* choice is left open whenever there is an expired entry to clean.
Cleanings ==
  IF \E k \in DOMAIN rateLimitStore : rateLimitStore[k].resetAt < rlNow
  THEN BOOLEAN ELSE {FALSE}

\* One request to one of the three routes, up to the rate-limit branch:
\* 429 when not allowed, otherwise the handler goes on to its work.
RateLimitedRequest ==
  /\ rlTicks > 0 => rlLate < MaxLate
  /\ rlLate' = IF rlTicks > 0 THEN rlLate + 1 ELSE rlLate
  /\ \E ip \in ClientIPs, endpoint \in Endpoints, cleaning \in Cleanings :
       LET r == checkRateLimit(rateLimitStore, ip, LimitOf(endpoint), rlNow,
                               cleaning)
           w == [ip |-> ip, endpoint |-> endpoint, resetAt |-> r.resetAt]
           response == IF ~r.allowed THEN "429" ELSE "handled"
       IN /\ rlRequests[ip] < (IF ip = "ip1" THEN MaxRequests ELSE MaxOther)
          /\ rlRequests' = [rlRequests EXCEPT ![ip] = @ + 1]
          /\ rateLimitStore' = r.store
          /\ rlLast' = [allowed |-> r.allowed,
                        inWindow |-> (/\ r.resetAt - WindowMs <= rlNow
                                      /\ rlNow <= r.resetAt),
                        response |-> response,
                        \* the client had already been let through to this
                        \* endpoint maxRequests times in this window
                        exhausted |-> (/\ w \in DOMAIN rlAdmitted
                                       /\ rlAdmitted[w] >= LimitOf(endpoint))]
          /\ rlAdmitted' =
               IF response = "429" THEN rlAdmitted
               ELSE [x \in DOMAIN rlAdmitted \cup {w} |->
                       IF x = w
                       THEN (IF w \in DOMAIN rlAdmitted THEN rlAdmitted[w] ELSE 0) + 1
                       ELSE rlAdmitted[x]]
  /\ UNCHANGED <<rlNow, rlTicks, histVars, storeVars, saveVars, cfgVars, runVars,
                 sseVars, svcVars>>

\* Time passes: one millisecond, or a whole window.
ClockAdvances ==
  /\ rlTicks < MaxTicks
  /\ \E d \in {1, WindowMs} : rlNow' = rlNow + d
  /\ rlTicks' = rlTicks + 1
  /\ UNCHANGED <<rateLimitStore, rlRequests, rlLate, rlAdmitted, rlLast, histVars,
                 storeVars, saveVars, cfgVars, runVars, sseVars, svcVars>>

NextRate ==
  \/ RateLimitedRequest
  \/ ClockAdvances

InitRate == InitSSE

SpecRate == InitRate /\ [][NextRate]_vars

\* ----------------------------------------------------- conversation history
\* Variant that always adds the conversation at the front.
Upsert_unshift(history, conversation) == <<conversation>> \o history

\* findIndex by id, then replace in place or unshift.
Upsert(history, conversation) ==
  IF \E i \in 1..Len(history) : history[i].id = conversation.id
  THEN LET existingIndex == CHOOSE i \in 1..Len(history) :
                               /\ history[i].id = conversation.id
                               /\ \A j \in 1..(i - 1) :
                                     history[j].id # conversation.id
       IN [history EXCEPT ![existingIndex] = conversation]
  ELSE <<conversation>> \o history

\* history.slice(0, n)
Slice(history, n) == SubSeq(history, 1, IF Len(history) < n THEN Len(history) ELSE n)

\* saveConversationToHistory.  `critical` is the outcome of the quota check,
\* `full` says that the first setItem of the new history throws: then the
\* stored history is cut to 25 and the save is tried again.
saveConversationToHistory(history, conversation, critical, full) ==
  LET h0 == IF critical THEN Slice(history, 10) ELSE history
      h1 == IF full THEN Slice(h0, 25) ELSE h0
  IN Slice(Upsert(h1, conversation), MAX_HISTORY_ITEMS)

\* A conversation is saved: a new one (ids are issued in increasing order),
\* or the newest or the oldest stored one again, with its content changed.
SaveConversation ==
  /\ saves < MaxSaves
  /\ \E critical \in BOOLEAN, full \in BOOLEAN :
       /\ (critical \/ full) => Len(storedHistory) > 48
       /\ \/ /\ storedHistory' = saveConversationToHistory(
                    storedHistory, [id |-> saves + 1, rev |-> 1], critical, full)
             /\ updates' = updates
          \/ /\ updates < MaxUpdates
             /\ \E i \in {j \in {1, Len(storedHistory)} : j \in DOMAIN storedHistory} :
                  storedHistory' = saveConversationToHistory(
                    storedHistory,
                    [id |-> storedHistory[i].id, rev |-> storedHistory[i].rev + 1],
                    critical, full)
             /\ updates' = updates + 1
  /\ saves' = saves + 1
  /\ UNCHANGED <<rlVars, storeVars, saveVars, cfgVars, runVars, sseVars, svcVars>>

NextStorage ==
  \/ SaveConversation

InitStorage == InitSSE

SpecStorage == InitStorage /\ [][NextStorage]_vars

\* ------------------------------------- saveConversationToHistory, by steps
\* What localStorage.setItem does during one save: it never throws; it throws
\* on the first write of the history that holds the new conversation; it
\* throws on every such write but takes the reduced history; it throws on
\* every write.
Quotas == {"never", "once", "always", "all"}

\* setItem of the history that holds the conversation throws.
SaveThrows == quota \in {"always", "all"} \/ (quota = "once" /\ saveRetries = 0)

\* The call returns, and with it every call below it on the stack: the
\* recursive call is the last statement of the caller's inner try.
SaveReturns ==
  /\ savePc' = "idle" /\ saveDepth' = 0
  /\ UNCHANGED <<saveRetries, saveItem, quota>>

\* saveConversationToHistory(conversation) is called with a new conversation
\* or with the newest stored one, changed.  The browser refuses writes only
\* when the history is nearly full.
SaveBegins ==
  /\ savePc = "idle"
  /\ saves < MaxSaves
  /\ \E q \in Quotas :
       /\ q # "never" => Len(storedHistory) > 48
       /\ quota' = q
  /\ \/ /\ saveItem' = [id |-> saves + 1, rev |-> 1]
        /\ updates' = updates
     \/ /\ updates < MaxUpdates
        /\ storedHistory # <<>>
        /\ saveItem' = [id |-> storedHistory[1].id, rev |-> storedHistory[1].rev + 1]
        /\ updates' = updates + 1
  /\ saves' = saves + 1
  /\ savePc' = "try" /\ saveDepth' = 1 /\ saveRetries' = 0
  /\ UNCHANGED <<storedHistory, rlVars, storeVars, cfgVars, runVars, sseVars,
                 svcVars>>

\* checkStorageQuota, then the try block, lines 88-107: when the usage is
\* critical the stored history is cut to 10 (a refused write is logged);
\* the history is read, the conversation put in, the list cut to
\* MAX_HISTORY_ITEMS and written.
SaveTries ==
  /\ savePc = "try"
  /\ \E critical \in BOOLEAN :
       /\ critical => Len(storedHistory) > 48
       /\ LET history == IF critical /\ quota # "all"
                         THEN Slice(storedHistory, 10) ELSE storedHistory
          IN IF SaveThrows
             THEN /\ savePc' = "catch"
                  /\ storedHistory' = history
                  /\ UNCHANGED <<saveDepth, saveRetries, saveItem, quota>>
             ELSE /\ storedHistory' = Slice(Upsert(history, saveItem),
                                             MAX_HISTORY_ITEMS)
                  /\ SaveReturns
  /\ UNCHANGED <<saves, updates, rlVars, storeVars, cfgVars, runVars, sseVars,
                 svcVars>>

\* The catch block, lines 108-119: the stored history is cut to 25 and
\* written, then saveConversationToHistory calls itself.  When the write of
\* the reduced history throws, or the stack has no room for another call, the
\* inner catch logs the error and the call returns.
SaveCleansUp ==
  /\ savePc = "catch"
  /\ IF quota = "all"
     THEN UNCHANGED storedHistory /\ SaveReturns
     ELSE /\ storedHistory' = Slice(storedHistory, 25)
          /\ IF saveDepth = MaxStack
             THEN SaveReturns
             ELSE /\ savePc' = "try"
                  /\ saveDepth' = saveDepth + 1
                  /\ saveRetries' = saveRetries + 1
                  /\ UNCHANGED <<saveItem, quota>>
  /\ UNCHANGED <<saves, updates, rlVars, storeVars, cfgVars, runVars, sseVars,
                 svcVars>>

NextSave ==
  \/ SaveBegins
  \/ SaveTries
  \/ SaveCleansUp

InitSave == InitSSE

SpecSave == InitSave /\ [][NextSave]_vars

\* ----------------------------------------------- CouncilService / useDebate
\* useDebate.startDebate and CouncilService.startDebate up to the fetch: the
\* hook's guard, then a new controller replaces the one the service holds.
StartDebate ==
  /\ Len(debates) < MaxDebates
  /\ \E continueMode \in BOOLEAN, regenerate \in BOOLEAN :
       ~(isDebating /\ ~continueMode /\ ~regenerate)
  /\ isDebating' = TRUE
  /\ abortController' = Len(debates) + 1
  /\ debates' = Append(debates, [status |-> "streaming", delivered |-> 0,
                                  stopped |-> FALSE, afterStop |-> 0])
  /\ UNCHANGED <<cfgVars, runVars, sseVars, utilVars>>

\* parseStream of debate d hands one event to the debate's handler.
DeliverEvent ==
  /\ \E d \in 1..Len(debates) :
       /\ debates[d].status = "streaming"
       /\ debates[d].delivered < MaxDelivered
       /\ debates' = [debates EXCEPT
                        ![d].delivered = @ + 1,
                        ![d].afterStop = IF debates[d].stopped THEN @ + 1 ELSE @]
  /\ UNCHANGED <<abortController, isDebating, cfgVars, runVars, sseVars, utilVars>>

\* The stream of debate d ends; the hook's finally clears isDebating.
StreamDone ==
  /\ \E d \in 1..Len(debates) :
       /\ debates[d].status = "streaming"
       /\ debates' = [debates EXCEPT ![d].status = "finished"]
  /\ isDebating' = FALSE
  /\ UNCHANGED <<abortController, cfgVars, runVars, sseVars, utilVars>>

\* The fetch or the read of debate d fails with something other than an
\* abort: the catch block hands an error event to the handler and rethrows.
StreamFails ==
  /\ \E d \in 1..Len(debates) :
       /\ debates[d].status = "streaming"
       /\ debates' = [debates EXCEPT
                        ![d].status = "failed",
                        ![d].delivered = @ + 1,
                        ![d].afterStop = IF debates[d].stopped THEN @ + 1 ELSE @]
  /\ isDebating' = FALSE
  /\ UNCHANGED <<abortController, cfgVars, runVars, sseVars, utilVars>>

\* useDebate.stopDebate and CouncilService.stopDebate: the controller held
\* is aborted and dropped; the aborted debate's AbortError is swallowed.
StopDebate ==
  /\ debates # <<>>
  /\ debates' = [d \in 1..Len(debates) |->
                   [debates[d] EXCEPT
                      !.stopped = TRUE,
                      !.status = IF d = abortController /\ @ = "streaming"
                                 THEN "aborted" ELSE @]]
  /\ abortController' = 0
  /\ isDebating' = FALSE
  /\ UNCHANGED <<cfgVars, runVars, sseVars, utilVars>>

NextService ==
  \/ StartDebate
  \/ DeliverEvent
  \/ StreamDone
  \/ StreamFails
  \/ StopDebate

\* The client alone: the server session is not looked at.
InitService == InitSSE

SpecService == InitService /\ [][NextService]_vars

\* ------------------------------------------------- client store: messages
\* A message as added by the store, with the number of chunks in its content.
Message(t, a, c, streaming) ==
  [type |-> t, agent |-> a, content |-> c, isStreaming |-> streaming]

\* handleStreamEvent: what one event does to store.messages.  An event
\* content of "empty" stands for the empty string, "" for no content field.
handleStreamEvent(msgs, e) ==
  LET last == msgs[Len(msgs)]
      hasContent == e.content \notin {"", "empty"}
  IN CASE e.type = "research_results" ->
            Append(msgs, Message("system", "none", 1, FALSE))
       [] e.type = "agent_start" ->
            IF e.agent # "none"
            THEN Append(msgs, Message("agent", e.agent, 0, TRUE))
            ELSE msgs
       [] e.type = "agent_response" ->
            IF /\ e.agent # "none" /\ hasContent /\ msgs # <<>>
               /\ last.agent = e.agent /\ last.isStreaming
            THEN [msgs EXCEPT ![Len(msgs)].content = @ + 1]
            ELSE msgs
       [] e.type = "agent_complete" ->
            IF msgs # <<>> /\ last.isStreaming
            THEN [msgs EXCEPT ![Len(msgs)].isStreaming = FALSE]
            ELSE msgs
       [] e.type = "moderator_analysis" ->
            IF hasContent THEN Append(msgs, Message("moderator", "none", 1, FALSE))
            ELSE msgs
       [] e.type = "final_answer" ->
            IF hasContent THEN Append(msgs, Message("final", "none", 1, FALSE))
            ELSE msgs
       [] e.type = "error" ->
            IF hasContent THEN Append(msgs, Message("error", "none", 1, FALSE))
            ELSE msgs
       [] OTHER -> msgs

\* The handler passed to councilService.startDebate receives the next event of
\* the stream and hands it to the store.
HandleEvent ==
  /\ handled < Len(events)
  /\ messages' = handleStreamEvent(messages, events[handled + 1])
  /\ handled' = handled + 1
  /\ UNCHANGED <<cfgVars, runVars, sseVars, svcVars, rlVars, histVars, saveVars>>

NextStore ==
  \/ RunCouncilDebate
  \/ SearchReturns
  \/ AdvisorReturns
  \/ ModeratorReturns
  \/ SynthesisReturns
  \/ HandleEvent

\* Quick sessions of three advisors with a search key, watched by the client.
InitStore ==
  /\ Init
  /\ mode = "quick" /\ Len(selectedAdvisors) = 3 /\ tavilyClient
  /\ question = <<"x">>

SpecStore == InitStore /\ [][NextStore]_vars

\* ------------------------------------------------------- reading the record
\* Successful turns of round r: advisors whose response of round r is stored.
SuccInRound(r) ==
  Cardinality({i \in 1..Len(selectedAdvisors) :
                 r \in Range(agentResponses[selectedAdvisors[i]])})

\* Round r has run through all its turns (or was abandoned).
RoundOver(r) == r < newRound \/ (r = newRound /\ pc # "advisor")

\* Positions in the event log at which a round begins, and the segment of
\* the log that belongs to round r.
RoundStarts == {i \in 1..Len(events) : events[i].content = "starting round"}
RoundStart(r) ==
  CHOOSE i \in RoundStarts : Cardinality({j \in RoundStarts : j <= i}) = r
RoundEnd(r) ==
  IF r < Cardinality(RoundStarts) THEN RoundStart(r + 1) - 1 ELSE Len(events)
StartedIn(r, a) ==
  \E i \in RoundStart(r)..RoundEnd(r) :
     events[i].type = "agent_start" /\ events[i].agent = a

\* ------------------------------------------------------------------ claims

\* C1: quick, standard and deep resolve to maxRounds 1, 2 and 3, and no run
\* executes more than maxRounds rounds: neither currentRound, nor the number
\* of runDebateRound calls, nor the number of rounds announced on the stream
\* exceeds maxRounds.
C1_RoundsWithinBudget ==
  /\ mode = "quick" => maxRounds = 1
  /\ mode = "standard" => maxRounds = 2
  /\ mode = "deep" => maxRounds = 3
  /\ currentRound <= maxRounds
  /\ newRound <= maxRounds
  /\ Cardinality(RoundStarts) <= maxRounds

C1_Witness ==
  /\ pc = "done" /\ fatal = "none" /\ mode = "deep"
  /\ currentRound = 3 /\ Cardinality(RoundStarts) = 3

C3_InsufficientRoundIsFatal ==
  \A r \in 1..newRound :
     (RoundOver(r) /\ SuccInRound(r) < 2) =>
        /\ r = newRound
        /\ pc = "done" /\ closed
        /\ Last(events).type = "error"
        /\ CountType(events, "final_answer") = 0
        /\ finalAnswer = "undefined"

C3_Witness ==
  /\ pc = "done" /\ newRound = 2 /\ SuccInRound(2) < 2
  /\ Last(events).type = "error"

\* C4: a round in which some advisor fails while at least 2 succeed is not
\* aborted: every selected advisor takes its turn in it, and the session
\* goes on to the next round, the consensus check or the final synthesis.
C4_PartialFailureContinues ==
  \A r \in 1..newRound :
     (/\ RoundOver(r)
      /\ SuccInRound(r) >= 2
      /\ SuccInRound(r) < Len(selectedAdvisors)) =>
        /\ \A i \in 1..Len(selectedAdvisors) : StartedIn(r, selectedAdvisors[i])
        /\ pc \in {"advisor", "analyze", "synthesize", "done"}
        /\ (pc = "done" /\ r = newRound) =>
              fatal \in {"none", "analysis", "synthesis"}
        /\ (pc = "done" /\ r = newRound /\ fatal = "none") =>
              CountType(events, "final_answer") = 1

C4_Witness ==
  /\ pc = "advisor" /\ newRound = 2
  /\ SuccInRound(1) = 2 /\ Len(selectedAdvisors) = 3
  /\ Len(agentResponses[selectedAdvisors[1]]) = 0
  /\ StartedIn(1, selectedAdvisors[3])

\* C5 as stated: every failed advisor turn, rejected call or empty response
\* alike, has its error event on the stream.
C5_EveryFailureLogged ==
  Cardinality({i \in 1..Len(events) :
                 events[i].type = "error" /\
                 events[i].content = "failed to respond"}) = failures

\* C6: in every round after the first, the prompt of the advisor whose call
\* is in flight quotes the latest response of every other selected advisor
\* that has one, and for an advisor that already answered in this round that
\* is its answer of this round.
C6_PromptHasLatestOfOthers ==
  (pc = "advisor" /\ newRound > 1) =>
     /\ prompt.advisor = selectedAdvisors[turn]
     /\ \A i \in 1..Len(selectedAdvisors) :
          LET o == selectedAdvisors[i] IN
          (o # prompt.advisor /\ Len(agentResponses[o]) > 0) =>
             /\ \E k \in 1..Len(prompt.context) :
                   prompt.context[k] =
                      [advisor |-> o, text |-> Last(agentResponses[o])]
             /\ (i < turn /\ newRound \in Range(agentResponses[o])) =>
                   \E k \in 1..Len(prompt.context) :
                      prompt.context[k] = [advisor |-> o, text |-> newRound]

C6_Witness ==
  /\ pc = "advisor" /\ newRound = 2 /\ turn = 3
  /\ agentResponses[selectedAdvisors[1]] = <<1, 2>>
  /\ agentResponses[selectedAdvisors[2]] = <<1>>
  /\ Len(prompt.context) = 2

\* C7 as stated: in round 1 no advisor's prompt contains the response of
\* another advisor.
C7_Round1Unconditioned ==
  (pc = "advisor" /\ newRound = 1) => prompt.context = <<>>

\* C8 as stated: once an analysis after a round R >= 2 has returned
\* consensusReached = true, no further round runs, the session goes to the
\* synthesis call and, when that call succeeds, ends with exactly one
\* final_answer event and consensusReached = true.
C8_ConsensusEndsDebate ==
  \A i \in 1..Len(analyses) :
     (analyses[i].reached = "true" /\ analyses[i].round >= 2) =>
        /\ newRound = analyses[i].round
        /\ pc \in {"synthesize", "done"}
        /\ (pc = "done" /\ fatal = "none") =>
              /\ consensusReached
              /\ CountType(events, "final_answer") = 1

\* C9 as stated: when the round loop is left because the rounds are
\* exhausted, the synthesis prompt carries the majority-view framing and a
\* session that ends with its final answer has consensusReached = false.
C9_ExhaustedRoundsMajorityFraming ==
  (site = "final" /\ pc \in {"synthesize", "done"} /\ fatal # "analysis") =>
     /\ finalPrompt = "majority"
     /\ (pc = "done" /\ fatal = "none") =>
           /\ ~consensusReached
           /\ finalAnswer # "undefined"

\* C10: an analysis run on a state with fewer than 3 advisors holding a
\* non-empty latest response returns consensusReached = false and
\* agreementLevel = 0 and makes no moderator call.
C10_ShortCircuitBelowThree ==
  /\ \A i \in 1..Len(analyses) :
       analyses[i].nonEmpty < 3 =>
          /\ ~analyses[i].called
          /\ analyses[i].reached = "false"
          /\ analyses[i].level = 0
  /\ pc = "analyze" => NonEmptyLatest(agentResponses) >= 3

C10_Witness ==
  /\ Len(selectedAdvisors) = 3
  /\ \E i \in 1..Len(analyses) :
       analyses[i].nonEmpty = 2 /\ analyses[i].site = "loop"

\* C11: a moderator reply in which every expected field is missing parses to
\* consensusReached = false, agreementLevel = 0 and empty lists without
\* raising: the session does not end in the route's catch block because of
\* it, and it goes on as after a "no consensus" verdict (next round, or the
\* synthesis with the majority framing once the rounds are exhausted).
C11_MalformedReplyIsNoConsensus ==
  /\ \A i \in 1..Len(analyses) :
       analyses[i].reply = MalformedReply =>
          analyses[i].reached = "false" /\ analyses[i].level = 0
  /\ (Len(analyses) > 0 /\ Last(analyses).reply = MalformedReply) =>
        /\ consensus = DefaultVerdict
        /\ fatal # "analysis"
        /\ ~consensusReached
        /\ pc = "synthesize" => (site = "final" /\ finalPrompt = "majority")
        /\ Last(analyses).site = "loop" => pc \in {"advisor", "done"}
  /\ fatal = "analysis" => Last(analyses).reached = "threw"

C11_Witness ==
  /\ pc = "advisor" /\ newRound = 3
  /\ Len(analyses) = 1 /\ analyses[1].reply = MalformedReply
  /\ analyses[1].called

\* C12: when the final-answer synthesis call fails, the session ends with
\* the error event as the last event of the closed stream, no final_answer
\* is emitted or stored, and the synthesis call is not issued again: no
\* session issues it more than once.
C12_SynthesisFailureIsFatal ==
  /\ CountCalls("synthesis") <= 1
  /\ (\E i \in 1..Len(calls) :
         calls[i].kind = "synthesis" /\ calls[i].result = "throw") =>
        /\ pc = "done" /\ closed /\ fatal = "synthesis"
        /\ Last(events).type = "error"
        /\ CountType(events, "final_answer") = 0
        /\ finalAnswer = "undefined"
        /\ CountCalls("synthesis") = 1
        /\ Last(calls).kind = "synthesis"

C12_Witness ==
  /\ fatal = "synthesis" /\ pc = "done" /\ site = "loop"
  /\ Last(analyses).reached = "true"

\* The first event after position i that is not a text chunk, 0 if none.
AfterChunks(i) ==
  IF \E j \in (i + 1)..Len(events) : events[j].type # "agent_response"
  THEN CHOOSE j \in (i + 1)..Len(events) :
         /\ events[j].type # "agent_response"
         /\ \A k \in (i + 1)..(j - 1) : events[k].type = "agent_response"
  ELSE 0

\* C13 as stated: every turn that starts, failed ones included, is emitted
\* as agent_start(K), agent_response(K) chunks, agent_complete(K) before any
\* other event: the first event after the chunks of a started turn is the
\* agent_complete of the same advisor, and a turn without one is in flight.
C13_TurnEventsBracketed ==
  \A i \in 1..Len(events) :
     events[i].type = "agent_start" =>
        LET j == AfterChunks(i) IN
        /\ \A k \in (i + 1)..(IF j = 0 THEN Len(events) ELSE j - 1) :
              events[k].agent = events[i].agent
        /\ IF j = 0 THEN pc = "advisor"
           ELSE /\ events[j].type = "agent_complete"
                /\ events[j].agent = events[i].agent

\* An event that belongs to an advisor's turn.
IsTurnEvent(e) ==
  \/ e.type \in {"agent_start", "agent_response", "agent_complete"}
  \/ e.type = "error" /\ e.content = "failed to respond"

\* C14: a consensus_check event of round N comes after all advisor turn
\* events of round N (every selected advisor has started its turn in that
\* round and the last turn has ended) and before any event of round N+1: a
\* later turn event is separated from it by the start of another round.
C14_ConsensusCheckAfterRound ==
  \A i \in 1..Len(events) :
     events[i].type = "consensus_check" =>
        LET N == Cardinality({j \in RoundStarts : j < i})
            turnEvents == {k \in RoundStart(N)..i : IsTurnEvent(events[k])}
            lastTurn == CHOOSE k \in turnEvents : \A m \in turnEvents : m <= k
        IN /\ N >= 1
           /\ \A a \in 1..Len(selectedAdvisors) :
                 \E k \in RoundStart(N)..i :
                    events[k].type = "agent_start" /\
                    events[k].agent = selectedAdvisors[a]
           /\ events[lastTurn].type \in {"agent_complete", "error"}
           /\ events[lastTurn].type = "agent_complete" =>
                 events[lastTurn].agent = Last(selectedAdvisors)
           /\ events[lastTurn].type = "error" =>
                 events[lastTurn].subject = Last(selectedAdvisors)
           /\ \A k \in (i + 1)..Len(events) :
                 IsTurnEvent(events[k]) =>
                    \E m \in RoundStarts : i < m /\ m < k

C14_Witness ==
  /\ pc = "advisor" /\ newRound = 3 /\ turn = 2
  /\ CountType(events, "consensus_check") = 1
  /\ failures > 0

\* C18: when the search returns zero results the session goes on to the
\* rounds with no stored research results, no research_results event is
\* emitted, and no advisor prompt carries a RESEARCH FINDINGS section (every
\* prompt issued is the value of `prompt` in the state that follows its
\* construction).
C18_ZeroResultsNoResearchContext ==
  searchResult = 0 =>
     /\ researchResults = 0
     /\ CountType(events, "research_results") = 0
     /\ ~prompt.research
     /\ fatal # "research"
     /\ RoundStarts # {}
     /\ prompt.advisor # "none"

C18_Witness ==
  /\ searchResult = 0 /\ pc = "advisor" /\ newRound = 2
  /\ CountType(events, "research_start") = 1

\* C19: when the search call fails, performResearch yields no results, the
\* failure does not end the session in the route's catch block, and round 1
\* starts right after the research_complete event with prompts that carry no
\* research section.
C19_SearchFailureNotFatal ==
  searchResult = -1 =>
     /\ researchResults = 0
     /\ CountType(events, "research_results") = 0
     /\ fatal # "research"
     /\ \E i \in 1..Len(calls) :
           /\ calls[i].kind = "search" /\ calls[i].result = "throw"
           /\ events[calls[i].at + 1].type = "research_complete"
           /\ events[calls[i].at + 3].content = "starting round"
     /\ prompt.advisor # "none" /\ ~prompt.research

C19_Witness ==
  /\ searchResult = -1 /\ pc = "done" /\ fatal = "none"
  /\ CountType(events, "final_answer") = 1

\* C20 as stated: whenever the research gate returns true, by the explicit
\* flag or by a keyword in the question, the search collaborator is invoked
\* before round 1 and a research_start event is emitted.
C20_GateTrueMeansSearch ==
  (pc # "created" /\ shouldActivateResearch) =>
     /\ CountCalls("search") = 1
     /\ CountType(events, "research_start") = 1
     /\ \A i \in RoundStarts :
           \E j \in 1..(i - 1) : events[j].type = "research_start"

\* C15 as stated: every event written by the route reaches the handler
\* exactly once and in the order written, however the byte stream is split
\* into chunks: what has been delivered is always a prefix of what was sent,
\* and once nothing is in flight it is all of it.
C15_StreamDeliversEveryEvent ==
  /\ Len(sseDelivered) <= Len(sseSent)
  /\ \A i \in 1..Len(sseDelivered) : sseDelivered[i] = sseSent[i]
  /\ sseWire = <<>> => sseDelivered = sseSent

\* C16 as stated: once the caller has cancelled the session, the
\* orchestrator issues no further completion or search call.
C16_NoCallAfterCancel ==
  \A i \in 1..Len(calls) : ~calls[i].afterCancel

\* C17 as stated: after stopDebate no event, error events included, reaches
\* the handler of any debate started on the service before the call.
C17_StopSilencesEveryDebate ==
  \A d \in 1..Len(debates) : debates[d].afterStop = 0

\* C21: a session that has entered runCouncilDebate has emitted exactly one
\* cost_estimate event, it is the first event of the stream, and every
\* external call of the session was issued after it.
C21_OneCostEstimateFirst ==
  pc # "created" =>
     /\ CountType(events, "cost_estimate") = 1
     /\ events[1].type = "cost_estimate"
     /\ \A i \in 1..Len(calls) : calls[i].at >= 1

C21_Witness ==
  /\ pc = "done" /\ CountType(events, "final_answer") = 1
  /\ CountCalls("advisor") >= 4 /\ CountCalls("analysis") >= 1

\* The terminating events of a session: the final answer, and the error
\* event written by the route's catch block.
IsTerminal(e) ==
  \/ e.type = "final_answer"
  \/ e.type = "error" /\ e.content = "safe error message"

\* C22: once the final_answer event or the fatal error event has been
\* emitted, the session is over: the event is the last of the stream, the
\* writer is closed, every external call was issued before it and has
\* settled, and no step of the session follows.
C22_TerminatedIsAbsorbing ==
  \A i \in 1..Len(events) :
     IsTerminal(events[i]) =>
        /\ i = Len(events)
        /\ pc = "done" /\ closed
        /\ \A c \in 1..Len(calls) :
              calls[c].at < i /\ calls[c].result # "pending"
        /\ ~ENABLED Next

C22_Witness ==
  /\ pc = "done" /\ fatal = "insufficient"
  /\ IsTerminal(Last(events)) /\ Len(calls) >= 2

\* C23 as stated: when the caller supplies prior conversation text, the
\* prompts sent to the advisors contain that text.
C23_PromptCarriesTranscript ==
  (conversationHistory /\ prompt.advisor # "none") => "history" \in prompt.seed

\* C24: if every external call eventually returns or fails, every session
\* eventually terminates: it reaches the end of the route's task with the
\* writer closed, its last event being the final answer or the fatal error,
\* after at most maxRounds rounds.
C24_SessionTerminates ==
  <>(/\ pc = "done" /\ closed
     /\ IsTerminal(Last(events))
     /\ Cardinality(RoundStarts) <= maxRounds)

C24_Witness ==
  /\ pc = "done" /\ closed /\ mode = "deep"
  /\ Cardinality(RoundStarts) = maxRounds
  /\ Last(events).type = "final_answer"

\* C25: in every window of the limiter (the 60 seconds that start with a
\* client's first request after its previous window ran out) at most 10
\* requests of that client get past the limiter on the council endpoint, at
\* most 5 on the interrupt endpoint and at most 1 on the validation endpoint;
\* a request is answered 429, without reaching the handler's work, exactly
\* when the limiter does not allow it, and the window a request is counted
\* in contains the time of the request and is 60 seconds long.
C25_RateLimitPerWindow ==
  /\ \A w \in DOMAIN rlAdmitted : rlAdmitted[w] <= LimitOf(w.endpoint)
  /\ (rlLast.response = "429") <=> ~rlLast.allowed
  /\ rlLast.inWindow
  /\ \A k \in DOMAIN rateLimitStore :
        \A e \in Endpoints :
           LET w == [ip |-> k, endpoint |-> e,
                     resetAt |-> rateLimitStore[k].resetAt]
           IN w \in DOMAIN rlAdmitted =>
                 rlAdmitted[w] <= rateLimitStore[k].count

C25_Witness ==
  /\ rlLast.response = "429"
  /\ "ip1" \in DOMAIN rateLimitStore
  /\ rateLimitStore["ip1"].count = CouncilLimit + 1
  /\ [ip |-> "ip1", endpoint |-> "council",
      resetAt |-> rateLimitStore["ip1"].resetAt] \in DOMAIN rlAdmitted
  /\ rlAdmitted[[ip |-> "ip1", endpoint |-> "council",
                 resetAt |-> rateLimitStore["ip1"].resetAt]] = CouncilLimit

\* C26: after any sequence of saves the stored history holds at most
\* MAX_HISTORY_ITEMS conversations and no two of them have the same id.
C26_HistoryBoundedAndUnique ==
  /\ Len(storedHistory) <= MAX_HISTORY_ITEMS
  /\ \A i, j \in 1..Len(storedHistory) :
        storedHistory[i].id = storedHistory[j].id => i = j

C26_Witness ==
  /\ Len(storedHistory) = MAX_HISTORY_ITEMS
  /\ saves > MAX_HISTORY_ITEMS
  /\ \E i \in 1..Len(storedHistory) : storedHistory[i].rev = 2

\* C27: shouldActivateResearch returns false whenever no search client is
\* configured, whatever the research flag; with a client it returns true
\* when research was explicitly enabled, and otherwise true exactly when the
\* lower-cased question contains a keyword of the list.
C27_GateDecision ==
  gateResult # "none" =>
     (gateResult = "true") =
        IF ~tavilyClient THEN FALSE
        ELSE IF userEnabledResearch THEN TRUE
        ELSE \E keyword \in researchKeywords :
                \E i \in 1..Len(question) :
                   /\ i + Len(keyword) - 1 <= Len(question)
                   /\ ToLowerCase(SubSeq(question, i, i + Len(keyword) - 1))
                         = keyword

C27_Witness ==
  /\ gateResult = "true" /\ tavilyClient /\ ~userEnabledResearch
  /\ question = <<"x", "s", "t", "a", "t", "S", " ", "O", "N">>

\* The research events of the stream.
IsResearchEvent(e) ==
  e.type \in {"research_start", "research_complete", "research_results"}

\* C28: a research_start event is followed by exactly one research_complete
\* event once the search has settled, whether it succeeded or failed; every
\* research event precedes the first agent_start; and researchResults holds
\* what the search returned, written before round 1 and never afterwards.
C28_ResearchBeforeRounds ==
  /\ CountType(events, "research_start") <= 1
  /\ CountType(events, "research_complete") =
        IF pc = "research" THEN 0 ELSE CountType(events, "research_start")
  /\ \A i \in 1..Len(events) :
        events[i].type = "research_complete" =>
           \E j \in 1..(i - 1) : events[j].type = "research_start"
  /\ \A j \in 1..Len(events) :
        IsResearchEvent(events[j]) =>
           \A k \in 1..(j - 1) :
              /\ events[k].type # "agent_start"
              /\ events[k].content # "starting round"
  /\ pc # "research" =>
        researchResults = IF searchResult > 0 THEN searchResult ELSE 0
  /\ pc = "research" => researchResults = 0 /\ RoundStarts = {}

C28_Witness ==
  /\ searchResult = -1 /\ pc = "advisor" /\ newRound = 2
  /\ CountType(events, "research_start") = 1
  /\ CountType(events, "research_complete") = 1

\* The advisor calls issued so far, in order: call k is the turn of advisor
\* ((k - 1) mod n) + 1 of the list, every round taking the advisors in order.
AdvisorCalls == SelectSeq(calls, LAMBDA c : c.kind = "advisor")

C30_FinalAnswerIffTerminated ==
  (finalAnswer # "undefined") <=> (pc = "done")

\* C30, amended: finalAnswer is set if and only if the session has terminated
\* by emitting its final_answer event; it is assigned once, with the text of
\* that event, and a session that ended in the route's catch block has none.
C30_FinalAnswerIffAnswered ==
  /\ (finalAnswer # "undefined") <=> (pc = "done" /\ fatal = "none")
  /\ (finalAnswer # "undefined") <=> (CountType(events, "final_answer") = 1)
  /\ CountType(events, "final_answer") <= 1
  /\ finalAnswer # "undefined" =>
        /\ Last(events).type = "final_answer"
        /\ Last(events).content = finalAnswer
        /\ Last(calls).kind = "synthesis" /\ Last(calls).result = finalAnswer

C30_Witness ==
  /\ pc = "done" /\ finalAnswer = "text" /\ consensusReached
  /\ Last(events).type = "final_answer"

\* Positions of the agent_start events in the event log.
StartPositions == {i \in 1..Len(events) : events[i].type = "agent_start"}

\* C31: in every round each entry of the advisor list is attempted exactly
\* once, one after the other in list order: the k-th advisor call of the
\* session is the call for entry ((k - 1) mod n) + 1 of the list, made in round
\* ((k - 1) div n) + 1 right after that advisor's agent_start event; a call is
\* issued only when every earlier call has settled; and after a failed call
\* the next call is for the next entry, never for the same one again.
C31_OneSequentialAttemptEach ==
  LET n == Len(selectedAdvisors)
  IN /\ \A i \in 1..Len(calls) : calls[i].result = "pending" => i = Len(calls)
     /\ pc = "advisor" <=> (calls # <<>> /\ Last(calls).kind = "advisor"
                            /\ Last(calls).result = "pending")
     /\ Cardinality(StartPositions) = Len(AdvisorCalls)
     /\ Cardinality(RoundStarts) = newRound
     /\ Len(AdvisorCalls) = IF newRound = 0 THEN 0 ELSE (newRound - 1) * n + turn
     /\ \A k \in 1..Len(AdvisorCalls) :
          LET at == AdvisorCalls[k].at
              r == ((k - 1) \div n) + 1
          IN /\ at \in StartPositions
             /\ events[at].agent = selectedAdvisors[((k - 1) % n) + 1]
             /\ RoundStart(r) < at /\ at <= RoundEnd(r)
             /\ k > 1 => AdvisorCalls[k - 1].at < at

C31_Witness ==
  /\ pc = "advisor" /\ newRound = 2 /\ turn = 2
  /\ Len(selectedAdvisors) = 3
  /\ AdvisorCalls[1].result = "throw"
  /\ AdvisorCalls[4].result = "empty"
  /\ events[AdvisorCalls[2].at].agent = selectedAdvisors[2]

\* C32 as stated: every advisors list that passes the request validation
\* consists of 2 to 5 pairwise-distinct known advisor identifiers, and no
\* round contains two turns of the same advisor.
C32_AcceptedListsAreSets ==
  pc \notin {"request", "rejected"} =>
     /\ Len(selectedAdvisors) \in 2..5
     /\ \A i \in 1..Len(selectedAdvisors) :
           selectedAdvisors[i] \in Range(ADVISOR_NAMES)
     /\ \A i, j \in 1..Len(selectedAdvisors) :
           selectedAdvisors[i] = selectedAdvisors[j] => i = j
     /\ \A r \in 1..Cardinality(RoundStarts) :
           \A i, j \in RoundStart(r)..RoundEnd(r) :
              (/\ events[i].type = "agent_start"
               /\ events[j].type = "agent_start"
               /\ events[i].agent = events[j].agent) => i = j

\* C33 as stated: for each completed round the consensus analyzer is run at
\* most once; no two moderator analysis calls are made on the state of the
\* same round.
C33_OneAnalysisPerRound ==
  \A i, j \in 1..Len(analyses) :
     (/\ analyses[i].called /\ analyses[j].called
      /\ analyses[i].round = analyses[j].round) => i = j

\* C34: in a session with exactly two selected advisors no analysis issues a
\* moderator call, every analysis returns the default verdict and
\* consensusReached is never true; such a session reaches the synthesis of
\* its final answer only after all maxRounds rounds have been played, and
\* synthesizes with the majority framing.
C34_TwoAdvisorsNeverAgree ==
  Len(selectedAdvisors) = 2 =>
     /\ CountCalls("analysis") = 0
     /\ \A i \in 1..Len(analyses) :
          ~analyses[i].called /\ analyses[i].reached = "false"
     /\ consensus = DefaultVerdict
     /\ ~consensusReached
     /\ pc # "analyze"
     /\ (pc = "synthesize" \/ (pc = "done" /\ fatal \in {"none", "synthesis"})) =>
          /\ currentRound = maxRounds
          /\ Cardinality(RoundStarts) = maxRounds
          /\ Len(AdvisorCalls) = 2 * maxRounds
          /\ site = "final"
          /\ finalPrompt = "majority"

C34_Witness ==
  /\ Len(selectedAdvisors) = 2 /\ maxRounds = 3
  /\ pc = "done" /\ fatal = "none" /\ finalAnswer = "text"
  /\ Len(analyses) = 3 /\ currentRound = 3

\* The stream of the debate has ended and the store has seen all of it.
StreamEnded == pc = "done" /\ closed /\ handled = Len(events)

\* C35 as stated: once the store has handled the agent_complete event or the
\* per-advisor error event that ends an advisor's turn, that advisor's message
\* is no longer marked isStreaming, and after the event stream has ended no
\* message of the store is.
C35_NoStreamingAfterTurnEnd ==
  /\ \A i \in 1..handled :
       LET e == events[i]
           who == IF e.type = "agent_complete" THEN e.agent ELSE e.subject
       IN (e.type = "agent_complete" \/ (e.type = "error" /\ e.subject # "none")) =>
            \A k \in 1..Len(messages) :
               (messages[k].type = "agent" /\ messages[k].agent = who
                /\ messages[k].isStreaming) =>
                  \* the message belongs to a later turn of that advisor
                  Cardinality({j \in (i + 1)..handled :
                                 /\ events[j].type = "agent_start"
                                 /\ events[j].agent = who}) > 0
  /\ StreamEnded => \A k \in 1..Len(messages) : ~messages[k].isStreaming

\* C36 as stated: isDebating is true in every state in which a debate started
\* by startDebate is still in flight, its stream neither finished nor aborted;
\* the end of an earlier debate does not clear the flag under a later one.
C36_FlagCoversDebatesInFlight ==
  (\E d \in 1..Len(debates) : debates[d].status = "streaming") => isDebating

\* C37 as stated: the limits of the three endpoints are independent per
\* client; a request to an endpoint is refused only when the same client has
\* used up that endpoint's own allowance in the window, whatever it has sent
\* to the other two endpoints.
C37_EndpointLimitsIndependent ==
  rlLast.response = "429" => rlLast.exhausted

\* C38 as stated: a call of saveConversationToHistory retries the save at
\* most once after its cleanup, also when every write of the history that
\* holds the new conversation is refused while the reduced history is taken.
C38_SaveRetriesAtMostOnce ==
  saveRetries <= 1

====
